---- MODULE Spec2Model ----
(***************************************************************************)
(* Model of openstf_dbc/services/predictor.py: the Predictor service that  *)
(* assembles weather, market and load-profile predictors on one time index.*)
(*                                                                         *)
(* Time is counted in integer ticks; tick 0 is midnight (UTC) of day 0 and *)
(* a day has TicksPerDay ticks.  A resolution is a positive number of      *)
(* ticks; the Python value None (no resolution) is written NoResolution.   *)
(*                                                                         *)
(* A table (pandas.DataFrame with a DatetimeIndex) is a record             *)
(*     [cols |-> sequence of column names,                                 *)
(*      rows |-> sequence of [t |-> timestamp, v |-> sequence of cells]]   *)
(* with rows in ascending timestamp order and one cell per column.  A cell *)
(* is an exact rational <<numerator, denominator>> in lowest terms with a  *)
(* positive denominator; the missing value NaN is <<0, 0>>.                *)
(***************************************************************************)
EXTENDS Integers, Sequences, FiniteSets, TLC

\* ------------------------------------------------------------------ bounds

\* Timestamps of the model lie in 0..MaxT.
MaxT == 2
\* Ticks in one day (pandas' default frequency "D" when none is given).
TicksPerDay == 4
\* Largest resolution, in ticks, a request asks for.
MaxRes == 2
\* Most observations one collaborator returns in the aggregation runs.
MaxObs == 2
\* Longest predictor_groups list a request passes.
MaxGroups == 2
\* Timestamps of the resampling runs lie in 0..MaxSeriesT.
MaxSeriesT == 13
\* Most observations of a series in the resampling runs.
MaxSeriesObs == 3

\* ------------------------------------------------------------------ cells

NaN == <<0, 0>>

IsNaN(c) == c[2] = 0

Abs(n) == IF n < 0 THEN -n ELSE n

RECURSIVE GCD(_, _)
GCD(a, b) == IF b = 0 THEN a ELSE GCD(b, a % b)

\* The rational n/d (d # 0) in lowest terms with a positive denominator.
Rat(n, d) ==
    LET g == GCD(Abs(n), Abs(d))
        s == IF d < 0 THEN -1 ELSE 1
    IN  <<(s * n) \div g, (s * d) \div g>>

Num(n) == <<n, 1>>

\* ------------------------------------------------------------------ sequences

Range(s) == {s[i] : i \in DOMAIN s}

Contains(s, x) == \E i \in DOMAIN s : s[i] = x

RECURSIVE SetToSortedSeq(_)
SetToSortedSeq(S) ==
    IF S = {} THEN <<>>
    ELSE LET m == CHOOSE x \in S : \A y \in S : x <= y
         IN  <<m>> \o SetToSortedSeq(S \ {m})

\* Position of the first x in s, 0 when absent (list.index / "in").
IndexOf(s, x) ==
    IF Contains(s, x) THEN CHOOSE i \in DOMAIN s : s[i] = x /\ \A j \in 1..(i - 1) : s[j] # x
    ELSE 0

\* s without its element at position k.
RemoveAt(s, k) == [i \in 1..(Len(s) - 1) |-> IF i < k THEN s[i] ELSE s[i + 1]]

\* ------------------------------------------------------------------ tables

\* pandas.DataFrame(): no columns, no rows.
EmptyFrame == [cols |-> <<>>, rows |-> <<>>]

\* The timestamps of a table, in order, and as a set.
IndexOfTable(df) == [i \in DOMAIN df.rows |-> df.rows[i].t]

IndexSet(df) == {df.rows[i].t : i \in DOMAIN df.rows}

\* pandas.DataFrame(index=idx): the rows of idx and no column.
FrameOfIndex(idx) == [cols |-> <<>>, rows |-> [i \in DOMAIN idx |-> [t |-> idx[i], v |-> <<>>]]]

\* DataFrame.empty: some axis has length 0.
empty(df) == Len(df.cols) = 0 \/ Len(df.rows) = 0

\* The row of df at timestamp t (t is in the index).
RowAt(df, t) == df.rows[CHOOSE i \in DOMAIN df.rows : df.rows[i].t = t]

\* The cells of df at timestamp t, all NaN when t is not in the index.
CellsAt(df, t) ==
    IF t \in IndexSet(df) THEN RowAt(df, t).v ELSE [j \in DOMAIN df.cols |-> NaN]

\* One column of a table as a sequence of cells.
Column(df, j) == [i \in DOMAIN df.rows |-> df.rows[i].v[j]]

\* df.rename(columns={old: new}).
rename(df, old, new) ==
    [df EXCEPT !.cols = [j \in DOMAIN df.cols |-> IF df.cols[j] = old THEN new ELSE df.cols[j]]]

\* del df[name] / df.drop(name, axis=1): the first column of that name goes.
DropColumn(df, name) ==
    LET k == IndexOf(df.cols, name)
    IN  IF k = 0 THEN df
        ELSE [cols |-> RemoveAt(df.cols, k),
              rows |-> [i \in DOMAIN df.rows |-> [t |-> df.rows[i].t, v |-> RemoveAt(df.rows[i].v, k)]]]

\* df[name] = df[from]: overwrite the column in place, or append it.
AssignColumn(df, name, from) ==
    LET k == IndexOf(df.cols, name)
        f == IndexOf(df.cols, from)
    IN  IF k # 0
        THEN [df EXCEPT !.rows = [i \in DOMAIN df.rows |->
                 [t |-> df.rows[i].t, v |-> [df.rows[i].v EXCEPT ![k] = df.rows[i].v[f]]]]]
        ELSE [cols |-> Append(df.cols, name),
              rows |-> [i \in DOMAIN df.rows |->
                 [t |-> df.rows[i].t, v |-> Append(df.rows[i].v, df.rows[i].v[f])]]]

\* pd.date_range(start, end, freq, tz="UTC"): start, start + freq, ... up to
\* end.  Without a frequency and without periods pandas takes freq = "D".
NoResolution == 0

date_range(start, end, freq) ==
    LET step == IF freq = NoResolution THEN TicksPerDay ELSE freq
    IN  SetToSortedSeq({t \in start..end : (t - start) % step = 0})

\* The join taken as an inner join: only the timestamps both tables have.
concat_inner(a, b) ==
    LET idx == SetToSortedSeq(IndexSet(a) \cap IndexSet(b))
    IN  [cols |-> a.cols \o b.cols,
         rows |-> [i \in DOMAIN idx |-> [t |-> idx[i], v |-> CellsAt(a, idx[i]) \o CellsAt(b, idx[i])]]]

\* pd.concat([a, b], axis=1): outer join on the index (sorted union for a
\* DatetimeIndex), the columns of a followed by those of b, NaN where a
\* table has no row.
concat(a, b) ==
    LET idx == SetToSortedSeq(IndexSet(a) \cup IndexSet(b))
    IN  [cols |-> a.cols \o b.cols,
         rows |-> [i \in DOMAIN idx |-> [t |-> idx[i], v |-> CellsAt(a, idx[i]) \o CellsAt(b, idx[i])]]]

\* ------------------------------------------------------------------ resampling

\* The bins labelled on their right edge instead of their left.
ResampleLabels_right(df, freq) ==
    LET first  == df.rows[1].t
        last   == df.rows[Len(df.rows)].t
        origin == (first \div TicksPerDay) * TicksPerDay
        lo     == first - ((first - origin) % freq) + freq
        hi     == last - ((last - origin) % freq) + freq
    IN  SetToSortedSeq({t \in lo..hi : (t - lo) % freq = 0})

\* The labels of df.resample(freq) for a non-empty df: the bins are anchored
\* at midnight of the first row's day (origin="start_day"), closed and
\* labelled on the left, from the bin of the first row to that of the last.
ResampleLabels(df, freq) ==
    LET first  == df.rows[1].t
        last   == df.rows[Len(df.rows)].t
        origin == (first \div TicksPerDay) * TicksPerDay
        lo     == first - ((first - origin) % freq)
        hi     == last - ((last - origin) % freq)
    IN  SetToSortedSeq({t \in lo..hi : (t - lo) % freq = 0})

\* ax.inferred_freq == freq: at least three rows, each freq after the one
\* before.  Resampler._upsample then keeps the rows and only relabels them.
EqualSampling(df, freq) ==
    /\ Len(df.rows) >= 3
    /\ \A i \in 1..(Len(df.rows) - 1) : df.rows[i + 1].t - df.rows[i].t = freq

\* obj.reindex(labels, method="ffill"): the row at or last before the label.
ReindexFfill(df, labels) ==
    [cols |-> df.cols,
     rows |-> [i \in DOMAIN labels |->
        LET before == {k \in DOMAIN df.rows : df.rows[k].t <= labels[i]}
        IN  [t |-> labels[i],
             v |-> IF before = {} THEN [j \in DOMAIN df.cols |-> NaN]
                   ELSE df.rows[CHOOSE k \in before : \A m \in before : m <= k].v]]]

\* obj.reindex(labels): the row at the label, NaN when there is none.
ReindexExact(df, labels) ==
    [cols |-> df.cols,
     rows |-> [i \in DOMAIN labels |-> [t |-> labels[i], v |-> CellsAt(df, labels[i])]]]

\* Resampler._upsample(method) of a non-empty table.
upsample(df, freq, method) ==
    LET labels == ResampleLabels(df, freq)
    IN  IF EqualSampling(df, freq)
        THEN [cols |-> df.cols,
              rows |-> [i \in DOMAIN df.rows |-> [t |-> labels[i], v |-> df.rows[i].v]]]
        ELSE IF method = "ffill" THEN ReindexFfill(df, labels)
        ELSE ReindexExact(df, labels)

\* df.resample(freq).ffill()
resample_ffill(df, freq) == upsample(df, freq, "ffill")

\* Linear interpolation between cell a at position i and cell b at position
\* j, read at position k (method="linear" takes the rows as equally spaced).
Linear(a, i, b, j, k) ==
    Rat(a[1] * b[2] * (j - i) + (b[1] * a[2] - a[1] * b[2]) * (k - i), a[2] * b[2] * (j - i))

\* Series.interpolate(limit=limit), forward: a NaN at most limit positions
\* after a valid cell is filled, on the line to the next valid cell or, when
\* none follows, with the last valid cell; every other NaN stays.
InterpolateColumn(col, limit) ==
    [k \in DOMAIN col |->
        IF ~IsNaN(col[k]) THEN col[k]
        ELSE LET prev == {p \in 1..(k - 1) : ~IsNaN(col[p])}
                 next == {q \in (k + 1)..Len(col) : ~IsNaN(col[q])}
             IN  IF prev = {} THEN NaN
                 ELSE LET p == CHOOSE x \in prev : \A y \in prev : y <= x
                      IN  IF k - p > limit THEN NaN
                          ELSE IF next = {} THEN col[p]
                          ELSE LET q == CHOOSE x \in next : \A y \in next : x <= y
                               IN  Linear(col[p], p, col[q], q, k)]

\* Columns that hold text (provenance), which interpolate leaves as they are.
TextColumns == {"source", "source_1", "input_city", "input_city_1"}

\* DataFrame.interpolate(limit=limit): column by column.
interpolate(df, limit) ==
    LET filled == [j \in DOMAIN df.cols |->
                      IF df.cols[j] \in TextColumns THEN Column(df, j)
                      ELSE InterpolateColumn(Column(df, j), limit)]
    IN  [cols |-> df.cols,
         rows |-> [i \in DOMAIN df.rows |->
                     [t |-> df.rows[i].t, v |-> [j \in DOMAIN df.cols |-> filled[j][i]]]]]

\* df.resample(freq).interpolate(limit=limit)
resample_interpolate(df, freq, limit) == interpolate(upsample(df, freq, "asfreq"), limit)

\* ------------------------------------------------------------------ predictor groups

\* class PredictorGroups(Enum): the members, in declaration order, written
\* as the member's qualified name; PredictorGroupValue is a member's value.
MARKET_DATA == "PredictorGroups.MARKET_DATA"
WEATHER_DATA == "PredictorGroups.WEATHER_DATA"
LOAD_PROFILES == "PredictorGroups.LOAD_PROFILES"

PredictorGroups == <<MARKET_DATA, WEATHER_DATA, LOAD_PROFILES>>

PredictorGroupValue(m) ==
    CASE m = MARKET_DATA -> "market_data"
      [] m = WEATHER_DATA -> "weather_data"
      [] m = LOAD_PROFILES -> "load_profiles"

\* What stands for PredictorGroups(p) raising ValueError.
NotAPredictorGroup == "ValueError"

\* The silent fallback that keeps an unrecognised identifier as it is.
ToPredictorGroup_fallback(p) ==
    IF \E i \in DOMAIN PredictorGroups : p = PredictorGroupValue(PredictorGroups[i])
    THEN PredictorGroups[CHOOSE i \in DOMAIN PredictorGroups : p = PredictorGroupValue(PredictorGroups[i])]
    ELSE p

\* PredictorGroups(p): the member when p is a member or the value of one.
ToPredictorGroup(p) ==
    IF Contains(PredictorGroups, p) THEN p
    ELSE IF \E i \in DOMAIN PredictorGroups : p = PredictorGroupValue(PredictorGroups[i])
    THEN PredictorGroups[CHOOSE i \in DOMAIN PredictorGroups : p = PredictorGroupValue(PredictorGroups[i])]
    ELSE NotAPredictorGroup

\* ------------------------------------------------------------------ components

\* interpolate(limit=3) of get_load_profiles, interpolate(limit=11) of get_weather_data.
LoadProfileLimit == 3
WeatherLimit == 11

\* get_electricity_price, given what exec_influx_query returned under
\* "marketprices": rename Price to APX, forward-fill on the resolution.
get_electricity_price(marketprices, forecast_resolution) ==
    LET electricity_price == rename(marketprices, "Price", "APX")
    IN  IF forecast_resolution # NoResolution /\ ~empty(electricity_price)
        THEN resample_ffill(electricity_price, forecast_resolution)
        ELSE electricity_price

\* get_gas_price, given what exec_sql_query returned: rename price to Elba,
\* forward-fill on the resolution.
get_gas_price(result, forecast_resolution) ==
    LET gas_price == rename(result, "price", "Elba")
    IN  IF forecast_resolution # NoResolution /\ ~empty(gas_price)
        THEN resample_ffill(gas_price, forecast_resolution)
        ELSE gas_price

\* The load profiles interpolated with the weather's limit.
get_load_profiles_weather_limit(sjv, forecast_resolution) ==
    IF forecast_resolution # NoResolution /\ ~empty(sjv)
    THEN resample_interpolate(sjv, forecast_resolution, WeatherLimit)
    ELSE sjv

\* get_load_profiles, given what exec_influx_query returned under "sjv".
get_load_profiles(sjv, forecast_resolution) ==
    IF forecast_resolution # NoResolution /\ ~empty(sjv)
    THEN resample_interpolate(sjv, forecast_resolution, LoadProfileLimit)
    ELSE sjv

\* The schema repair of get_weather_data (the three if statements).
NormalizeWeather(weather_data) ==
    LET cols0 == weather_data
        step1 == IF Contains(cols0.cols, "source_1")
                 THEN DropColumn(AssignColumn(cols0, "source", "source_1"), "source_1")
                 ELSE cols0
        step2 == IF Contains(step1.cols, "source") THEN DropColumn(step1, "source") ELSE step1
        step3 == IF Contains(step2.cols, "input_city_1") THEN DropColumn(step2, "input_city_1")
                 ELSE IF Contains(step2.cols, "input_city") THEN DropColumn(step2, "input_city")
                 ELSE step2
    IN  step3

\* get_weather_data, given what Weather().get_weather_data returned.
get_weather_data(response, forecast_resolution) ==
    LET weather_data == NormalizeWeather(response)
    IN  IF forecast_resolution # NoResolution /\ ~empty(weather_data)
        THEN resample_interpolate(weather_data, forecast_resolution, WeatherLimit)
        ELSE weather_data

\* openstf_dbc.utils.utils.get_datetime_index: the index of the requested
\* window at the resolution.
get_datetime_index(datetime_start, datetime_end, forecast_resolution) ==
    date_range(datetime_start, datetime_end, forecast_resolution)

\* The merge without its case table: the two tables always joined.
get_market_data_always_concat(electricity_price, gas_price, datetime_start, datetime_end, forecast_resolution) ==
    concat(electricity_price, gas_price)

\* The merge of get_market_data, given the two price tables.
get_market_data(electricity_price, gas_price, datetime_start, datetime_end, forecast_resolution) ==
    IF ~empty(electricity_price) /\ empty(gas_price) THEN electricity_price
    ELSE IF empty(electricity_price) /\ ~empty(gas_price) THEN gas_price
    ELSE IF empty(electricity_price) /\ empty(gas_price)
         THEN FrameOfIndex(get_datetime_index(datetime_start, datetime_end, forecast_resolution))
    ELSE concat(electricity_price, gas_price)

\* ------------------------------------------------------------------ state

VARIABLES
    pc,                \* where the get_predictors call stands
    req,               \* datetime_start, datetime_end, forecast_resolution, location
    predictor_groups,  \* the predictor_groups argument, rebound by the coercion
    predictors,        \* the table being assembled
    electricity_price, \* get_market_data's first table, until the merge
    calls,             \* the collaborator invocations so far, with what each returned
    error,             \* the exception that ended the call, "none" otherwise
    cin,               \* component runs: the input of the component
    cop,               \* component runs: the component applied, "none" before
    cout               \* component runs: the table the component returned

vars == <<pc, req, predictor_groups, predictors, electricity_price, calls, error, cin, cop, cout>>

callVars == <<pc, req, predictor_groups, predictors, electricity_price, calls, error>>

componentVars == <<cin, cop, cout>>

\* ------------------------------------------------------------------ inputs

Times == 0..MaxT

\* The cell a collaborator reports at timestamp t.
SampleValue(t) == Num(t * t + 1)

\* A one-column table with an observation at each timestamp of S.
Observed(col, S) ==
    LET idx == SetToSortedSeq(S)
    IN  [cols |-> <<col>>, rows |-> [i \in DOMAIN idx |-> [t |-> idx[i], v |-> <<SampleValue(idx[i])>>]]]

ObservationSets == {S \in SUBSET Times : Cardinality(S) <= MaxObs}

Responses(col) == {Observed(col, S) : S \in ObservationSets}

NoLocation == "None"

Locations == {NoLocation, "Arnhem"}

GroupIdentifiers ==
    Range(PredictorGroups) \cup {PredictorGroupValue(m) : m \in Range(PredictorGroups)}
        \cup {"solar_data", "WEATHER_DATA"}

GroupLists == UNION {[1..n -> GroupIdentifiers] : n \in 0..MaxGroups}

\* predictor_groups as the caller passes it: None, or a list.
GroupArguments == {[none |-> TRUE, list |-> <<>>]} \cup {[none |-> FALSE, list |-> l] : l \in GroupLists}

Requests ==
    [datetime_start : 0..1, datetime_end : {MaxT}, forecast_resolution : 0..MaxRes,
     location : Locations]

NoInput == [kind |-> "none"]

\* ------------------------------------------------------------------ get_predictors

InvalidGroupError == "ValueError: not a valid PredictorGroups"
LocationError == "ValueError: Need to provide a location when weather data predictors are requested."
CollaboratorFailure == "collaborator failure"

WeatherCall == "Weather.get_weather_data"
ElectricityCall == "exec_influx_query marketprices"
GasCall == "exec_sql_query marketprices"
LoadProfilesCall == "exec_influx_query sjv"

Returned(fn, table) == [fn |-> fn, ok |-> TRUE, result |-> table]
Raised(fn) == [fn |-> fn, ok |-> FALSE, result |-> EmptyFrame]

\* The groups taken in the order the enum declares them: market first.
NextPc_enum_order(p) ==
    CASE p = "called" -> "market"
      [] p = "market" -> "weather"
      [] p = "weather" -> "load"
      [] p = "load" -> "returned"

\* The statement reached after each part of get_predictors: the three if
\* statements stand in the order weather, market, load profiles.
NextPc(p) ==
    CASE p = "called" -> "weather"
      [] p = "weather" -> "market"
      [] p = "market" -> "load"
      [] p = "load" -> "returned"

\* predictor_groups before the coercion: all members when None.
RequestedList == IF predictor_groups.none THEN PredictorGroups ELSE predictor_groups.list

Init ==
    /\ pc = "called"
    /\ req \in Requests
    /\ predictor_groups \in GroupArguments
    /\ predictors = EmptyFrame
    /\ electricity_price = EmptyFrame
    /\ calls = <<>>
    /\ error = "none"
    /\ cin = NoInput
    /\ cop = "none"
    /\ cout = EmptyFrame

\* [PredictorGroups(p) for p in predictor_groups]
Coerced(list) == [i \in DOMAIN list |-> ToPredictorGroup(list[i])]

\* The location check compared against the member's value instead of the member.
LocationMissing_by_value(groups, location) ==
    Contains(groups, PredictorGroupValue(WEATHER_DATA)) /\ location = NoLocation

\* PredictorGroups.WEATHER_DATA in predictor_groups and location is None
LocationMissing(groups, location) ==
    Contains(groups, WEATHER_DATA) /\ location = NoLocation

\* Lines 45-63: default, coercion, the location check, the empty table on
\* the requested index.
Validate ==
    /\ pc = "called"
    /\ \/ /\ Contains(Coerced(RequestedList), NotAPredictorGroup)
          /\ pc' = "failed"
          /\ error' = InvalidGroupError
          /\ UNCHANGED <<predictor_groups, predictors>>
       \/ /\ ~Contains(Coerced(RequestedList), NotAPredictorGroup)
          /\ LocationMissing(Coerced(RequestedList), req.location)
          /\ predictor_groups' = [none |-> FALSE, list |-> Coerced(RequestedList)]
          /\ pc' = "failed"
          /\ error' = LocationError
          /\ UNCHANGED predictors
       \/ /\ ~Contains(Coerced(RequestedList), NotAPredictorGroup)
          /\ ~LocationMissing(Coerced(RequestedList), req.location)
          /\ predictor_groups' = [none |-> FALSE, list |-> Coerced(RequestedList)]
          /\ pc' = NextPc("called")
          /\ predictors' = FrameOfIndex(date_range(req.datetime_start, req.datetime_end,
                                                   req.forecast_resolution))
          /\ UNCHANGED error
    /\ UNCHANGED <<req, electricity_price, calls>>
    /\ UNCHANGED componentVars

\* Lines 65-72 and get_weather_data.
FetchWeather ==
    /\ pc = "weather"
    /\ \/ /\ ~Contains(predictor_groups.list, WEATHER_DATA)
          /\ pc' = NextPc("weather")
          /\ UNCHANGED <<predictors, calls, error>>
       \/ /\ Contains(predictor_groups.list, WEATHER_DATA)
          /\ \E response \in Responses("temp") :
                /\ calls' = Append(calls, Returned(WeatherCall, response))
                /\ predictors' = concat(predictors, get_weather_data(response, req.forecast_resolution))
          /\ pc' = NextPc("weather")
          /\ UNCHANGED error
       \/ /\ Contains(predictor_groups.list, WEATHER_DATA)
          /\ calls' = Append(calls, Raised(WeatherCall))
          /\ pc' = "failed"
          /\ error' = CollaboratorFailure
          /\ UNCHANGED predictors
    /\ UNCHANGED <<req, predictor_groups, electricity_price>>
    /\ UNCHANGED componentVars

\* Line 74 and get_market_data's first call, get_electricity_price.
FetchElectricity ==
    /\ pc = "market"
    /\ \/ /\ ~Contains(predictor_groups.list, MARKET_DATA)
          /\ pc' = NextPc("market")
          /\ UNCHANGED <<electricity_price, calls, error>>
       \/ /\ Contains(predictor_groups.list, MARKET_DATA)
          /\ \E marketprices \in Responses("Price") :
                /\ calls' = Append(calls, Returned(ElectricityCall, marketprices))
                /\ electricity_price' = get_electricity_price(marketprices, req.forecast_resolution)
          /\ pc' = "gas"
          /\ UNCHANGED error
       \/ /\ Contains(predictor_groups.list, MARKET_DATA)
          /\ calls' = Append(calls, Raised(ElectricityCall))
          /\ pc' = "failed"
          /\ error' = CollaboratorFailure
          /\ UNCHANGED electricity_price
    /\ UNCHANGED <<req, predictor_groups, predictors>>
    /\ UNCHANGED componentVars

\* A gas query failure swallowed: the call goes on with the electricity prices.
FetchGas_suppressed ==
    /\ pc = "gas"
    /\ \/ /\ \E result \in Responses("price") :
                /\ calls' = Append(calls, Returned(GasCall, result))
                /\ predictors' = concat(predictors,
                      get_market_data(electricity_price,
                                      get_gas_price(result, req.forecast_resolution),
                                      req.datetime_start, req.datetime_end, req.forecast_resolution))
       \/ /\ calls' = Append(calls, Raised(GasCall))
          /\ predictors' = concat(predictors, electricity_price)
    /\ pc' = NextPc("market")
    /\ electricity_price' = EmptyFrame
    /\ UNCHANGED <<req, predictor_groups, error>>
    /\ UNCHANGED componentVars

\* get_gas_price, the merge of get_market_data, and line 78.
FetchGas ==
    /\ pc = "gas"
    /\ \/ /\ \E result \in Responses("price") :
                /\ calls' = Append(calls, Returned(GasCall, result))
                /\ predictors' = concat(predictors,
                      get_market_data(electricity_price,
                                      get_gas_price(result, req.forecast_resolution),
                                      req.datetime_start, req.datetime_end, req.forecast_resolution))
          /\ pc' = NextPc("market")
          /\ UNCHANGED error
       \/ /\ calls' = Append(calls, Raised(GasCall))
          /\ pc' = "failed"
          /\ error' = CollaboratorFailure
          /\ UNCHANGED predictors
    /\ electricity_price' = EmptyFrame
    /\ UNCHANGED <<req, predictor_groups>>
    /\ UNCHANGED componentVars

\* Lines 80-86 and get_load_profiles.
FetchLoadProfiles ==
    /\ pc = "load"
    /\ \/ /\ ~Contains(predictor_groups.list, LOAD_PROFILES)
          /\ pc' = NextPc("load")
          /\ UNCHANGED <<predictors, calls, error>>
       \/ /\ Contains(predictor_groups.list, LOAD_PROFILES)
          /\ \E sjv \in Responses("sjv_E1A") :
                /\ calls' = Append(calls, Returned(LoadProfilesCall, sjv))
                /\ predictors' = concat(predictors, get_load_profiles(sjv, req.forecast_resolution))
          /\ pc' = NextPc("load")
          /\ UNCHANGED error
       \/ /\ Contains(predictor_groups.list, LOAD_PROFILES)
          /\ calls' = Append(calls, Raised(LoadProfilesCall))
          /\ pc' = "failed"
          /\ error' = CollaboratorFailure
          /\ UNCHANGED predictors
    /\ UNCHANGED <<req, predictor_groups, electricity_price>>
    /\ UNCHANGED componentVars

Next == Validate \/ FetchWeather \/ FetchElectricity \/ FetchGas \/ FetchLoadProfiles

Spec == Init /\ [][Next]_vars

\* ------------------------------------------------------------------ properties of get_predictors

\* The requested grid: the index get_predictors builds at lines 56-63.
Grid == Range(date_range(req.datetime_start, req.datetime_end, req.forecast_resolution))

AllCalls == <<WeatherCall, ElectricityCall, GasCall, LoadProfilesCall>>

GroupOfCall(fn) ==
    CASE fn = WeatherCall -> WEATHER_DATA
      [] fn = ElectricityCall -> MARKET_DATA
      [] fn = GasCall -> MARKET_DATA
      [] fn = LoadProfilesCall -> LOAD_PROFILES

CallRank(fn) == IndexOf(AllCalls, fn)

ColumnRank(col) == IndexOf(<<"temp", "APX", "Elba", "sjv_E1A">>, col)

\* A failed call is the end: no step of the call follows it.
NoStepAfterFailure == [][pc # "failed"]_vars

\* C1: a call whose coerced predictor_groups holds WEATHER_DATA and whose
\* location is None fails with the location ValueError, whatever the other
\* arguments, and no collaborator is invoked in it.
C1_LocationRequired ==
    /\ [][(/\ pc = "called"
           /\ ~Contains(Coerced(RequestedList), NotAPredictorGroup)
           /\ Contains(Coerced(RequestedList), WEATHER_DATA)
           /\ req.location = NoLocation)
          => (pc' = "failed" /\ error' = LocationError /\ calls' = <<>>)]_vars
    /\ NoStepAfterFailure

C1_Witness ==
    /\ pc = "failed"
    /\ error = LocationError
    /\ calls = <<>>
    /\ req.location = NoLocation
    /\ req.forecast_resolution # NoResolution
    /\ predictor_groups.list = <<LOAD_PROFILES, WEATHER_DATA>>

\* C2: a call whose predictor_groups list holds an identifier that is no
\* member and no member's value fails with the invalid-group error before
\* any fetch, also next to valid groups and at any position of the list.
C2_InvalidGroupRejected ==
    /\ [][(/\ pc = "called"
           /\ \E i \in DOMAIN RequestedList :
                 /\ ~Contains(PredictorGroups, RequestedList[i])
                 /\ \A m \in Range(PredictorGroups) : RequestedList[i] # PredictorGroupValue(m))
          => (pc' = "failed" /\ error' = InvalidGroupError /\ calls' = <<>>)]_vars
    /\ NoStepAfterFailure

C2_Witness ==
    /\ pc = "failed"
    /\ error = InvalidGroupError
    /\ calls = <<>>
    /\ predictor_groups.list = <<"market_data", "solar_data">>

\* The timestamps a fetched table brings into the merge: its own when no
\* resolution is given, else the resolution's bins (anchored at midnight of
\* the first row's day) from the bin of its first row to that of its last.
ComponentTimes(result) ==
    IF Len(result.rows) = 0 THEN {}
    ELSE IF req.forecast_resolution = NoResolution THEN IndexSet(result)
    ELSE LET first == result.rows[1].t
             last  == result.rows[Len(result.rows)].t
             lo    == first - ((first - (first \div TicksPerDay) * TicksPerDay) % req.forecast_resolution)
         IN  {t \in lo..last : (t - lo) % req.forecast_resolution = 0}

\* C3 as stated: the index of the returned table is exactly the requested grid.
C3_IndexExactlyGrid == pc = "returned" => IndexSet(predictors) = Grid

\* The index get_market_data builds itself, when both price queries of the
\* call came back empty.
MarketWindowTimes ==
    IF \E i, j \in DOMAIN calls :
          /\ calls[i].fn = ElectricityCall /\ Len(calls[i].result.rows) = 0
          /\ calls[j].fn = GasCall /\ calls[j].ok /\ Len(calls[j].result.rows) = 0
    THEN Range(get_datetime_index(req.datetime_start, req.datetime_end, req.forecast_resolution))
    ELSE {}

\* C3, amended: the index of the returned table is ascending and is the union
\* of the requested grid with the timestamps of the fetched tables (and the
\* index get_market_data builds when both price tables are empty); it holds
\* every point of the grid and may hold more.
C3_IndexIsGridUnionComponents ==
    pc = "returned" =>
        /\ Grid \subseteq IndexSet(predictors)
        /\ IndexSet(predictors) =
              Grid \cup MarketWindowTimes
                   \cup UNION {ComponentTimes(calls[i].result) : i \in DOMAIN calls}
        /\ \A i \in 1..(Len(predictors.rows) - 1) : predictors.rows[i].t < predictors.rows[i + 1].t

C3_Witness ==
    /\ pc = "returned"
    /\ Len(calls) = 4
    /\ Grid # IndexSet(predictors)
    /\ Grid \subseteq IndexSet(predictors)

\* The price last observed at or before timestamp g.
LastObserved(result, g) ==
    LET before == {k \in DOMAIN result.rows : result.rows[k].t <= g}
    IN  result.rows[CHOOSE k \in before : \A m \in before : m <= k].v

\* C6: with a resolution and groups = [MARKET_DATA], electricity prices
\* observed on the grid and no gas price, the output has one row per grid
\* point and every grid point from the first observation on carries the
\* price last observed at or before it, through the end of the window.
C6_ForwardFillThroughWindowEnd ==
    (/\ pc = "returned"
     /\ predictor_groups.list = <<MARKET_DATA>>
     /\ req.forecast_resolution # NoResolution
     /\ Len(calls[1].result.rows) > 0
     /\ Len(calls[2].result.rows) = 0
     /\ IndexSet(calls[1].result) \subseteq Grid)
    => /\ IndexOfTable(predictors) = date_range(req.datetime_start, req.datetime_end, req.forecast_resolution)
       /\ predictors.cols = <<"APX">>
       /\ \A g \in Grid : g >= calls[1].result.rows[1].t
             => CellsAt(predictors, g) = LastObserved(calls[1].result, g)

\* C8: the groups are fetched and merged in the order weather, market, load
\* profiles whatever the order of the request list: the collaborators are
\* called in that order, each requested group is merged, and the columns of
\* the returned table stand in that order.
C8_FixedGroupOrder ==
    /\ \A i \in 1..(Len(calls) - 1) : CallRank(calls[i].fn) < CallRank(calls[i + 1].fn)
    /\ pc = "returned" =>
          /\ \A j \in 1..(Len(predictors.cols) - 1) :
                ColumnRank(predictors.cols[j]) < ColumnRank(predictors.cols[j + 1])
          /\ \A j \in DOMAIN predictors.cols : ColumnRank(predictors.cols[j]) # 0
          /\ {GroupOfCall(calls[i].fn) : i \in DOMAIN calls} = Range(predictor_groups.list)

C8_Witness ==
    /\ pc = "returned"
    /\ predictor_groups.list = <<LOAD_PROFILES, WEATHER_DATA>>
    /\ predictors.cols = <<"temp", "sjv_E1A">>
    /\ Len(predictors.rows) > 0

\* C10: a collaborator is called only for a requested group and at most once
\* in a call; a failure is the last thing that happens: it ends the call
\* with that failure, nothing is fetched after it and no table is returned.
C10_CallsState ==
    /\ \A i \in DOMAIN calls : Contains(predictor_groups.list, GroupOfCall(calls[i].fn))
    /\ \A i, j \in DOMAIN calls : i # j => calls[i].fn # calls[j].fn
    /\ \A i \in 1..(Len(calls) - 1) : calls[i].ok
    /\ (\E i \in DOMAIN calls : ~calls[i].ok) => (pc = "failed" /\ error = CollaboratorFailure)
    /\ pc = "returned" =>
          \A k \in DOMAIN AllCalls :
              Contains(predictor_groups.list, GroupOfCall(AllCalls[k]))
                  <=> (\E i \in DOMAIN calls : calls[i].fn = AllCalls[k])

C10_CollaboratorsOnceNoRetry == []C10_CallsState /\ NoStepAfterFailure

C10_Witness ==
    /\ pc = "failed"
    /\ error = CollaboratorFailure
    /\ Len(calls) = 3
    /\ ~calls[3].ok
    /\ Contains(predictor_groups.list, LOAD_PROFILES)

C10_WitnessDuplicate ==
    /\ pc = "returned"
    /\ predictor_groups.list = <<MARKET_DATA, MARKET_DATA>>
    /\ Len(calls) = 2

\* ------------------------------------------------------------------ component runs

\* One component applied to one input: cin holds what the collaborators
\* returned, req the window and the resolution, cout what the component
\* returned.

ProvenanceColumns == <<"source", "source_1", "input_city", "input_city_1">>

RECURSIVE Keep(_, _)
Keep(s, P) ==
    IF s = <<>> THEN <<>>
    ELSE (IF Head(s) \in P THEN <<Head(s)>> ELSE <<>>) \o Keep(Tail(s), P)

\* What the weather provider returns: the predictor column temp followed by
\* the provenance columns of P, with an observation at each timestamp of S.
WeatherTable(P, S) ==
    LET idx  == SetToSortedSeq(S)
        prov == Keep(ProvenanceColumns, P)
    IN  [cols |-> <<"temp">> \o prov,
         rows |-> [i \in DOMAIN idx |->
                     [t |-> idx[i], v |-> <<SampleValue(idx[i])>> \o [j \in DOMAIN prov |-> Num(j)]]]]

SeriesSets == {S \in SUBSET (0..MaxSeriesT) : Cardinality(S) <= MaxSeriesObs}

ComponentRequests == {r \in Requests : r.location = NoLocation}

InitComponent ==
    /\ pc = "component"
    /\ req \in ComponentRequests
    /\ predictor_groups = [none |-> TRUE, list |-> <<>>]
    /\ predictors = EmptyFrame
    /\ electricity_price = EmptyFrame
    /\ calls = <<>>
    /\ error = "none"
    /\ cop = "none"
    /\ cout = EmptyFrame

InitMarket ==
    /\ InitComponent
    /\ cin \in [fn : {"get_market_data"}, marketprices : Responses("Price"), result : Responses("price")]

InitWeather ==
    /\ InitComponent
    /\ cin \in [fn : {"get_weather_data"},
                response : {WeatherTable(P, S) : P \in SUBSET Range(ProvenanceColumns), S \in ObservationSets}]

InitResample ==
    /\ InitComponent
    /\ cin \in [fn : {"get_electricity_price"}, response : {Observed("Price", S) : S \in SeriesSets}]
          \cup [fn : {"get_gas_price"}, response : {Observed("price", S) : S \in SeriesSets}]
          \cup [fn : {"get_load_profiles"}, response : {Observed("sjv_E1A", S) : S \in SeriesSets}]
          \cup [fn : {"get_weather_data"}, response : {Observed("temp", S) : S \in SeriesSets}]

\* A component applied again, to a table it returned.
Apply(fn, df) ==
    CASE fn = "get_electricity_price" -> get_electricity_price(df, req.forecast_resolution)
      [] fn = "get_gas_price" -> get_gas_price(df, req.forecast_resolution)
      [] fn = "get_load_profiles" -> get_load_profiles(df, req.forecast_resolution)
      [] fn = "get_weather_data" -> get_weather_data(df, req.forecast_resolution)

RunMarketData ==
    /\ cop = "none"
    /\ cin.fn = "get_market_data"
    /\ cop' = cin.fn
    /\ cout' = get_market_data(get_electricity_price(cin.marketprices, req.forecast_resolution),
                               get_gas_price(cin.result, req.forecast_resolution),
                               req.datetime_start, req.datetime_end, req.forecast_resolution)
    /\ UNCHANGED <<cin, callVars>>

RunElectricityPrice ==
    /\ cop = "none"
    /\ cin.fn = "get_electricity_price"
    /\ cop' = cin.fn
    /\ cout' = get_electricity_price(cin.response, req.forecast_resolution)
    /\ UNCHANGED <<cin, callVars>>

RunGasPrice ==
    /\ cop = "none"
    /\ cin.fn = "get_gas_price"
    /\ cop' = cin.fn
    /\ cout' = get_gas_price(cin.response, req.forecast_resolution)
    /\ UNCHANGED <<cin, callVars>>

RunLoadProfiles ==
    /\ cop = "none"
    /\ cin.fn = "get_load_profiles"
    /\ cop' = cin.fn
    /\ cout' = get_load_profiles(cin.response, req.forecast_resolution)
    /\ UNCHANGED <<cin, callVars>>

RunWeatherData ==
    /\ cop = "none"
    /\ cin.fn = "get_weather_data"
    /\ cop' = cin.fn
    /\ cout' = get_weather_data(cin.response, req.forecast_resolution)
    /\ UNCHANGED <<cin, callVars>>

NextMarket == RunMarketData

NextWeather == RunWeatherData

NextResample == RunElectricityPrice \/ RunGasPrice \/ RunLoadProfiles \/ RunWeatherData

SpecMarket == InitMarket /\ [][NextMarket]_vars

SpecWeather == InitWeather /\ [][NextWeather]_vars

SpecResample == InitResample /\ [][NextResample]_vars

\* ------------------------------------------------------------------ properties of the components

\* C4: get_market_data follows the four-case table: one source non-empty
\* gives that source's resampled table and no column of the other; both
\* non-empty gives the columns of both on the union of their timestamps;
\* both empty gives no column on the index of the requested window.
C4_MarketMergeCases ==
    cop = "get_market_data" =>
        LET e == get_electricity_price(cin.marketprices, req.forecast_resolution)
            g == get_gas_price(cin.result, req.forecast_resolution)
            eEmpty == Len(cin.marketprices.rows) = 0
            gEmpty == Len(cin.result.rows) = 0
        IN  /\ (~eEmpty /\ gEmpty) => (cout = e /\ cout.cols = <<"APX">>)
            /\ (eEmpty /\ ~gEmpty) => (cout = g /\ cout.cols = <<"Elba">>)
            /\ (eEmpty /\ gEmpty) =>
                  /\ cout.cols = <<>>
                  /\ IndexOfTable(cout) = date_range(req.datetime_start, req.datetime_end,
                                                      req.forecast_resolution)
            /\ (~eEmpty /\ ~gEmpty) =>
                  /\ cout.cols = <<"APX", "Elba">>
                  /\ IndexSet(cout) = IndexSet(e) \cup IndexSet(g)
                  /\ \A i \in DOMAIN cout.rows :
                        cout.rows[i].v = CellsAt(e, cout.rows[i].t) \o CellsAt(g, cout.rows[i].t)

C4_Witness ==
    /\ cop = "get_market_data"
    /\ Len(cin.marketprices.rows) = 2
    /\ Len(cin.result.rows) = 0
    /\ req.forecast_resolution # NoResolution
    /\ cout.cols = <<"APX">>
    /\ Len(cout.rows) = 3

C4_WitnessBothEmpty ==
    /\ cop = "get_market_data"
    /\ Len(cin.marketprices.rows) = 0
    /\ Len(cin.result.rows) = 0
    /\ Len(cout.rows) > 1

\* C5: whatever provenance columns the weather provider returns, the table
\* get_weather_data returns has none of source, source_1, input_city,
\* input_city_1.
C5_NoProvenanceColumns ==
    cop = "get_weather_data" => Range(cout.cols) \cap TextColumns = {}

\* The limit of the interpolation of a component.
Cap(fn) == IF fn = "get_load_profiles" THEN LoadProfileLimit ELSE WeatherLimit

\* C7: with a resolution and a non-empty source, get_load_profiles (cap 3)
\* and get_weather_data (cap 11) keep every observed cell, fill no run of
\* more than cap consecutive missing cells, and leave missing every cell
\* that lies more than cap cells after the last observed one.
C7_InterpolationCapped ==
    (/\ cop \in {"get_load_profiles", "get_weather_data"}
     /\ req.forecast_resolution # NoResolution
     /\ Len(cin.response.rows) > 0)
    => LET pre == upsample(cin.response, req.forecast_resolution, "asfreq")
           cap == Cap(cop)
       IN  /\ cout.cols = pre.cols
           /\ IndexOfTable(cout) = IndexOfTable(pre)
           /\ \A t \in IndexSet(cin.response) \cap IndexSet(cout) : CellsAt(cout, t) = CellsAt(cin.response, t)
           /\ \A j \in DOMAIN pre.cols :
                 LET a == Column(pre, j)
                     b == Column(cout, j)
                 IN  /\ \A k \in DOMAIN a : ~IsNaN(a[k]) => b[k] = a[k]
                     /\ \A k \in DOMAIN a :
                           (k + cap \in DOMAIN a) =>
                               ~(\A i \in k..(k + cap) : IsNaN(a[i]) /\ ~IsNaN(b[i]))
                     /\ \A k \in DOMAIN a :
                           (k > cap /\ \A i \in (k - cap)..k : IsNaN(a[i])) => IsNaN(b[k])

C7_Witness ==
    /\ cop = "get_weather_data"
    /\ req.forecast_resolution = 1
    /\ Len(cin.response.rows) = 2
    /\ Len(cout.rows) > WeatherLimit + 2
    /\ \E k \in DOMAIN cout.rows : IsNaN(cout.rows[k].v[1])
    /\ Cardinality({k \in DOMAIN cout.rows : ~IsNaN(cout.rows[k].v[1])}) = WeatherLimit + 2

C7_WitnessLoadProfiles ==
    /\ cop = "get_load_profiles"
    /\ req.forecast_resolution = 1
    /\ Len(cin.response.rows) = 2
    /\ \E k \in DOMAIN cout.rows : IsNaN(cout.rows[k].v[1])
    /\ Cardinality({k \in DOMAIN cout.rows : ~IsNaN(cout.rows[k].v[1])}) = LoadProfileLimit + 2

\* A series with one observation on every point of the resolution's grid:
\* the first on a bin edge, each next one resolution later.
Aligned(df, freq) ==
    /\ Len(df.rows) > 0
    /\ (df.rows[1].t - (df.rows[1].t \div TicksPerDay) * TicksPerDay) % freq = 0
    /\ \A i \in 1..(Len(df.rows) - 1) : df.rows[i + 1].t - df.rows[i].t = freq

\* C9: each component returns an aligned series with its timestamps and
\* values unchanged, and applied to its own output returns it unchanged.
C9_ResampleIdempotentOnAligned ==
    (/\ cop \in {"get_electricity_price", "get_gas_price", "get_load_profiles", "get_weather_data"}
     /\ req.forecast_resolution # NoResolution
     /\ Aligned(cin.response, req.forecast_resolution))
    => /\ cout.rows = cin.response.rows
       /\ Apply(cop, cout) = cout

C9_Witness ==
    /\ cop = "get_load_profiles"
    /\ req.forecast_resolution = 2
    /\ Aligned(cin.response, req.forecast_resolution)
    /\ Len(cin.response.rows) = 3
    /\ cout.rows = cin.response.rows

C9_WitnessPrices ==
    /\ cop = "get_electricity_price"
    /\ req.forecast_resolution = 1
    /\ Aligned(cin.response, req.forecast_resolution)
    /\ Len(cin.response.rows) = 2
    /\ cout.cols = <<"APX">>

====
